---- MODULE Spec2Model ----
(***************************************************************************)
(* Model of the fixed-timestep simulation of src/src/main.rs: the world    *)
(* built by setup, and the three systems move_player, move_camera and      *)
(* check_for_collisions that main registers in one SystemSet.              *)
(*                                                                         *)
(* Numbers.  Every f32 of the program is represented by the integer that   *)
(* is twice its value (Fx).  This is exact for the program: TIMESTEP is    *)
(* the f32 nearest to 0.05, 250.0 * TIMESTEP rounds to exactly 12.5 in     *)
(* f32, the bounds are the integers -939, 939, -519, 511, and every        *)
(* coordinate the program can hold is a multiple of 0.5 of magnitude       *)
(* below 1024, where f32 addition of 12.5 is exact.                        *)
(*                                                                         *)
(* The system bodies are modelled as written.  Bevy's own check of a       *)
(* system's query parameters at start-up is not part of the model.         *)
(***************************************************************************)
EXTENDS Integers, FiniteSets, Sequences, TLC

\* number of ticks explored from the state built by setup
MaxTicks == 13
\* number of ticks explored from each state of InitReach
ReachTicks == 3
\* saturation of the history counter of consecutive ticks without a movement key
MaxStill == 2

\* an f32 value n.0 in the model's unit of 0.5
Fx(n) == 2 * n
\* the f32 value 0.5
Half == Fx(1) \div 2

\* TIMESTEP = 3.0 / 60.0, kept as numerator and denominator
TIMESTEP == <<3, 60>>
PLAYER_SPEED == Fx(250)

WALL_THICKNESS == Fx(10)
TOP_WALL == Fx(540)
LEFT_WALL == Fx(-960)
BOTTOM_WALL == Fx(-540)
RIGHT_WALL == Fx(960)

\* the keys the model distinguishes: the four keys the systems read, and one
\* key standing for every KeyCode that no system reads
KeyCode == {"W", "A", "S", "D", "Other"}
MoveKeys == {"W", "A", "S", "D"}

Entity == {"Camera", "Background", "Player", "House", "Boar",
           "WallTop", "WallLeft", "WallBottom", "WallRight"}

WallLocation == {"Top", "Left", "Bottom", "Right"}

Systems == {"move_player", "move_camera", "check_for_collisions"}

\* WallLocation::position
position(location) ==
    CASE location = "Top" -> <<Fx(0), TOP_WALL>>
      [] location = "Left" -> <<LEFT_WALL, Fx(0)>>
      [] location = "Bottom" -> <<Fx(0), BOTTOM_WALL>>
      [] location = "Right" -> <<RIGHT_WALL, Fx(0)>>

\* a size that does not take the thickness off the length
sizeFull(location) ==
    IF location \in {"Left", "Right"}
    THEN <<WALL_THICKNESS, TOP_WALL - BOTTOM_WALL>>
    ELSE <<RIGHT_WALL - LEFT_WALL, WALL_THICKNESS>>

\* WallLocation::size
size(location) ==
    IF location \in {"Left", "Right"}
    THEN <<WALL_THICKNESS, TOP_WALL - BOTTOM_WALL - WALL_THICKNESS>>
    ELSE <<RIGHT_WALL - LEFT_WALL - WALL_THICKNESS, WALL_THICKNESS>>

\* an entity: its Transform (translation x, y and scale sx, sy), its marker
\* components, its Npc variant and its HealthPoints ("None" and -1: absent)
Ent(x, y, sx, sy, comps, npc, hp) ==
    [x |-> x, y |-> y, sx |-> sx, sy |-> sy, comps |-> comps, npc |-> npc, hp |-> hp]

\* WallBundle::new
WallBundle(location) ==
    Ent(position(location)[1], position(location)[2],
        size(location)[1], size(location)[2], {"Collider"}, "None", -1)

\* a setup that spawns the camera with scale 5.0
SetupScaleFive == Fx(5)

\* OrthographicProjection.scale of the camera spawned by setup
SetupScale == Half

\* the entities spawned by setup
setup ==
    [e \in Entity |->
        CASE e = "Camera" -> Ent(Fx(350), Fx(350), Fx(1), Fx(1), {"MapCamera"}, "None", -1)
          [] e = "Background" -> Ent(Fx(0), Fx(0), Fx(1), Fx(1), {}, "None", -1)
          [] e = "Player" ->
                Ent(Fx(350), Fx(350), Fx(1), Fx(1), {"Player", "Collider"}, "None", Fx(100))
          [] e = "House" -> Ent(Fx(350), Fx(0), Fx(1), Fx(1), {}, "House", -1)
          [] e = "Boar" -> Ent(Fx(-254), Fx(180), Fx(1), Fx(1), {}, "Boar", Fx(40))
          [] e = "WallTop" -> WallBundle("Top")
          [] e = "WallLeft" -> WallBundle("Left")
          [] e = "WallBottom" -> WallBundle("Bottom")
          [] e = "WallRight" -> WallBundle("Right")]

VARIABLES
    world,      \* the entities and their components
    scale,      \* the map camera's OrthographicProjection.scale
    keys,       \* Input<KeyCode>: the keys held during the current tick
    ran,        \* the systems of the set that have run in the current tick
    events,     \* CollisionEvents sent in the current tick
    contacts,   \* history: the entities a CollisionEvent was sent for in this tick
    labels,     \* "House" Text2dBundles spawned so far
    halted,     \* a system has panicked
    budget,     \* ticks still to be explored
    start,      \* history: player and camera translation when the tick began
    anchor,     \* history: the same, when the current run of key-less ticks began
    still       \* history: consecutive ticks without a movement key, up to MaxStill

vars == <<world, scale, keys, ran, events, contacts, labels, halted, budget,
          start, anchor, still>>

\* the translation of an entity, as a pair
Pos(w, e) == <<w[e].x, w[e].y>>

Snapshot(w) == [player |-> Pos(w, "Player"), camera |-> Pos(w, "Camera")]

\* Query<_, With<c>>: the entities carrying component c
Query(w, c) == {e \in Entity : c \in w[e].comps}

\* a single_mut that panics on an empty query only and takes any match otherwise
single_mut_panicsEmpty(q) == q = {}

\* Query::single_mut panics unless the query matches exactly one entity
single_mut_panics(q) == Cardinality(q) # 1

\* an x_direction whose second test is an else-branch of the first
x_directionElse(k) ==
    IF "A" \in k THEN -1 ELSE IF "D" \in k THEN 1 ELSE 0

\* a y_direction whose first test is negated
y_directionNegated(k) ==
    LET d0 == 0
        d1 == IF "W" \notin k THEN d0 + 1 ELSE d0
        d2 == IF "S" \in k THEN d1 - 1 ELSE d1
    IN  d2

\* x_direction and y_direction of move_player and move_camera
x_direction(k) ==
    LET d0 == 0
        d1 == IF "A" \in k THEN d0 - 1 ELSE d0
        d2 == IF "D" \in k THEN d1 + 1 ELSE d1
    IN  d2

y_direction(k) ==
    LET d0 == 0
        d1 == IF "W" \in k THEN d0 + 1 ELSE d0
        d2 == IF "S" \in k THEN d1 - 1 ELSE d1
    IN  d2

\* direction * PLAYER_SPEED * TIMESTEP
step(direction) == (direction * PLAYER_SPEED * TIMESTEP[1]) \div TIMESTEP[2]

left_bound == LEFT_WALL + WALL_THICKNESS \div 2 + Fx(16)
right_bound == RIGHT_WALL - WALL_THICKNESS \div 2 - Fx(16)
\* a top_bound with the margin of the other three bounds
top_boundSixteen == TOP_WALL - WALL_THICKNESS \div 2 - Fx(16)

top_bound == TOP_WALL - WALL_THICKNESS \div 2 - Fx(24)
bottom_bound == BOTTOM_WALL + WALL_THICKNESS \div 2 + Fx(16)

\* a clamp that forgets the lower bound
clampUpperOnly(v, min, max) ==
    IF v > max THEN max ELSE v

\* f32::clamp (for min <= max)
clamp(v, min, max) ==
    LET x1 == IF v < min THEN min ELSE v
    IN  IF x1 > max THEN max ELSE x1

\* a translate whose y takes the x direction
translateCopied(t, k) ==
    LET new_transform_x == t.x + step(x_direction(k))
        new_transform_y == t.y + step(x_direction(k))
    IN  [t EXCEPT !.x = clamp(new_transform_x, left_bound, right_bound),
                  !.y = clamp(new_transform_y, bottom_bound, top_bound)]

\* the body of move_player and of move_camera on the one Transform t
translate(t, k) ==
    LET new_transform_x == t.x + step(x_direction(k))
        new_transform_y == t.y + step(y_direction(k))
    IN  [t EXCEPT !.x = clamp(new_transform_x, left_bound, right_bound),
                  !.y = clamp(new_transform_y, bottom_bound, top_bound)]

\* f32::clamp panics when min > max
BoundsInverted == left_bound > right_bound \/ bottom_bound > top_bound

\* the footprint passed to collide for both rectangles
Footprint == <<Fx(64), Fx(64)>>

\* a collide whose first comparison is not strict
collideLeftClosed(a_pos, a_size, b_pos, b_size) ==
    LET a_min == <<a_pos[1] - a_size[1] \div 2, a_pos[2] - a_size[2] \div 2>>
        a_max == <<a_pos[1] + a_size[1] \div 2, a_pos[2] + a_size[2] \div 2>>
        b_min == <<b_pos[1] - b_size[1] \div 2, b_pos[2] - b_size[2] \div 2>>
        b_max == <<b_pos[1] + b_size[1] \div 2, b_pos[2] + b_size[2] \div 2>>
    IN  /\ a_min[1] <= b_max[1]
        /\ a_max[1] > b_min[1]
        /\ a_min[2] < b_max[2]
        /\ a_max[2] > b_min[2]

\* a collide that counts rectangles sharing only an edge as intersecting
collideTouching(a_pos, a_size, b_pos, b_size) ==
    LET a_min == <<a_pos[1] - a_size[1] \div 2, a_pos[2] - a_size[2] \div 2>>
        a_max == <<a_pos[1] + a_size[1] \div 2, a_pos[2] + a_size[2] \div 2>>
        b_min == <<b_pos[1] - b_size[1] \div 2, b_pos[2] - b_size[2] \div 2>>
        b_max == <<b_pos[1] + b_size[1] \div 2, b_pos[2] + b_size[2] \div 2>>
    IN  /\ a_min[1] <= b_max[1]
        /\ a_max[1] >= b_min[1]
        /\ a_min[2] <= b_max[2]
        /\ a_max[2] >= b_min[2]

\* bevy::sprite::collide_aabb::collide, as far as the caller uses it:
\* TRUE when it returns Some(_)
collide(a_pos, a_size, b_pos, b_size) ==
    LET a_min == <<a_pos[1] - a_size[1] \div 2, a_pos[2] - a_size[2] \div 2>>
        a_max == <<a_pos[1] + a_size[1] \div 2, a_pos[2] + a_size[2] \div 2>>
        b_min == <<b_pos[1] - b_size[1] \div 2, b_pos[2] - b_size[2] \div 2>>
        b_max == <<b_pos[1] + b_size[1] \div 2, b_pos[2] + b_size[2] \div 2>>
    IN  /\ a_min[1] < b_max[1]
        /\ a_max[1] > b_min[1]
        /\ a_min[2] < b_max[2]
        /\ a_max[2] > b_min[2]

\* a collider_query without its With<Collider> filter
collider_queryAll(w) == Entity

\* collider_query of check_for_collisions
collider_query(w) == Query(w, "Collider")

\* the entities of the collider query that collide reports for player p
Hits(w, p) ==
    {e \in collider_query(w) : collide(Pos(w, p), Footprint, Pos(w, e), Footprint)}

\* the state after setup
Init ==
    /\ world = setup
    /\ scale = SetupScale
    /\ keys = {}
    /\ ran = Systems
    /\ events = 0
    /\ contacts = {}
    /\ labels = 0
    /\ halted = FALSE
    /\ budget = MaxTicks
    /\ start = Snapshot(setup)
    /\ anchor = Snapshot(setup)
    /\ still = 0

\* States between two ticks that the program reaches from setup, each given by
\* the translation of player and camera before its last tick and the keys held
\* in that tick:
\*   26 ticks of S, then S: one step above the House at (350, 0);
\*   102 ticks of A (68 of them with S), then A and S: next to the left and
\*     bottom bounds;
\*   46 ticks of D (11 of them with W), then D and W: next to the right and
\*     top bounds;
\*   104 ticks of A (the last one clamped to left_bound), 70 ticks of D (12 of
\*     them with W), then D: under the top wall, one step from x = -64;
\*   47 ticks of A (12 of them with S), then A and S: over the Boar at
\*     (-254, 180)
ReachFrom ==
    { <<Fx(350), Fx(350) - 26 * step(1), {"S"}>>,
      <<Fx(350) - 102 * step(1), Fx(350) - 68 * step(1), {"A", "S"}>>,
      <<Fx(350) + 46 * step(1), Fx(350) + 11 * step(1), {"D", "W"}>>,
      <<left_bound + 70 * step(1), Fx(350) + 12 * step(1), {"D"}>>,
      <<Fx(350) - 47 * step(1), Fx(350) - 12 * step(1), {"A", "S"}>> }

InitReach ==
    \E r \in ReachFrom :
        LET w0 == [setup EXCEPT !["Player"].x = r[1], !["Player"].y = r[2],
                                !["Camera"].x = r[1], !["Camera"].y = r[2]]
            w1 == [w0 EXCEPT !["Player"] = translate(@, r[3]),
                             !["Camera"] = translate(@, r[3])]
        IN  /\ world = w1
            /\ scale = SetupScale
            /\ keys = r[3]
            /\ ran = Systems
            /\ events = Cardinality(Hits(w1, "Player"))
            /\ contacts = Hits(w1, "Player")
            /\ labels = 0
            /\ halted = FALSE
            /\ budget = ReachTicks
            /\ start = Snapshot(w0)
            /\ anchor = Snapshot(w0)
            /\ still = 0

\* the state between two ticks in which player and camera, from translation
\* (x, y), have been through one tick with the keys k held, b ticks to explore
AfterTick(x, y, k, b) ==
    LET w0 == [setup EXCEPT !["Player"].x = x, !["Player"].y = y,
                            !["Camera"].x = x, !["Camera"].y = y]
        w1 == [w0 EXCEPT !["Player"] = translate(@, k),
                         !["Camera"] = translate(@, k)]
    IN  /\ world = w1
        /\ scale = SetupScale
        /\ keys = k
        /\ ran = Systems
        /\ events = Cardinality(Hits(w1, "Player"))
        /\ contacts = Hits(w1, "Player")
        /\ labels = 0
        /\ halted = FALSE
        /\ budget = b
        /\ start = Snapshot(w0)
        /\ anchor = Snapshot(w0)
        /\ still = IF k \cap MoveKeys = {} THEN 1 ELSE 0

\* the translations of ReachFrom and the one set by setup
TwiceFrom ==
    {<<r[1], r[2]>> : r \in ReachFrom} \cup {<<Fx(350), Fx(350)>>}

\* the movement systems have been applied once, with any keys, from a
\* translation of TwiceFrom
InitTwice ==
    \E p \in TwiceFrom : \E k \in SUBSET KeyCode : AfterTick(p[1], p[2], k, ReachTicks)

\* world w with marker component c carried by exactly the entities of s
Marked(w, c, s) ==
    [e \in Entity |->
        [w[e] EXCEPT !.comps = (@ \ {c}) \cup (IF e \in s THEN {c} ELSE {})]]

\* The worlds of setup and of its variants that spawn no, one or two entities
\* with the Player marker and no, one or two with the MapCamera marker: the
\* configurations the single_mut calls of the systems tell apart
InitWorlds ==
    \E ps \in {{}, {"Player"}, {"Player", "Boar"}} :
    \E cs \in {{}, {"Camera"}, {"Camera", "Background"}} :
        /\ world = Marked(Marked(setup, "Player", ps), "MapCamera", cs)
        /\ scale = SetupScale
        /\ keys = {}
        /\ ran = Systems
        /\ events = 0
        /\ contacts = {}
        /\ labels = 0
        /\ halted = FALSE
        /\ budget = ReachTicks
        /\ start = Snapshot(setup)
        /\ anchor = Snapshot(setup)
        /\ still = 0

\* FixedTimestep lets the set run once more: every system of the set is due
\* again, with the snapshot of the keys held
Begin(k) ==
    /\ ~halted
    /\ ran = Systems
    /\ budget > 0
    /\ keys' = k
    /\ still' = IF k \cap MoveKeys = {}
                THEN (IF still < MaxStill THEN still + 1 ELSE still)
                ELSE 0
    /\ anchor' = IF k \cap MoveKeys = {} /\ still > 0 THEN anchor ELSE Snapshot(world)
    /\ ran' = {}
    /\ events' = 0
    /\ contacts' = {}
    /\ budget' = budget - 1
    /\ start' = Snapshot(world)
    /\ UNCHANGED <<world, scale, labels, halted>>

BeginTick == \E k \in SUBSET KeyCode : Begin(k)

\* the set runs once more while the same keys are still held
SameKeysTick == Begin(keys)

\* a movement system whose query has lost its With<c> filter and that loops
\* over every Transform
MoveSystemEvery(name, c) ==
    /\ ~halted
    /\ name \notin ran
    /\ IF BoundsInverted
       THEN /\ halted' = TRUE
            /\ UNCHANGED <<world, ran>>
       ELSE /\ world' = [e \in Entity |-> translate(world[e], keys)]
            /\ ran' = ran \cup {name}
            /\ UNCHANGED halted
    /\ UNCHANGED <<keys, events, contacts, labels, budget, start, anchor, still>>

\* a movement system that places its entity from the player's translation
MoveSystemFollow(name, c) ==
    /\ ~halted
    /\ name \notin ran
    /\ IF single_mut_panics(Query(world, c)) \/ BoundsInverted
       THEN /\ halted' = TRUE
            /\ UNCHANGED <<world, ran>>
       ELSE /\ LET e == CHOOSE e \in Query(world, c) : TRUE
                   t == [world[e] EXCEPT !.x = world["Player"].x, !.y = world["Player"].y]
               IN  world' = [world EXCEPT ![e] = translate(t, keys)]
            /\ ran' = ran \cup {name}
            /\ UNCHANGED halted
    /\ UNCHANGED <<keys, events, contacts, labels, budget, start, anchor, still>>

\* a movement system on the single entity with marker component c
MoveSystem(name, c) ==
    /\ ~halted
    /\ name \notin ran
    /\ IF single_mut_panics(Query(world, c)) \/ BoundsInverted
       THEN /\ halted' = TRUE
            /\ UNCHANGED <<world, ran>>
       ELSE /\ LET e == CHOOSE e \in Query(world, c) : TRUE
               IN  world' = [world EXCEPT ![e] = translate(world[e], keys)]
            /\ ran' = ran \cup {name}
            /\ UNCHANGED halted
    /\ UNCHANGED <<keys, events, contacts, labels, budget, start, anchor, still>>

move_player ==
    /\ MoveSystem("move_player", "Player")
    /\ UNCHANGED scale

\* a move_camera whose query is move_player's, With<Player>
move_cameraOnPlayer ==
    /\ MoveSystem("move_camera", "Player")
    /\ UNCHANGED scale

\* a move_camera that also zooms: the key no system reads doubles the scale
move_cameraZoom ==
    /\ MoveSystem("move_camera", "MapCamera")
    /\ scale' = IF "Other" \in keys THEN clamp(scale * 2, Half, Fx(2)) ELSE scale

\* move_camera takes the camera's Transform only: the projection is untouched
move_camera ==
    /\ MoveSystem("move_camera", "MapCamera")
    /\ UNCHANGED scale

check_for_collisions ==
    /\ ~halted
    /\ "check_for_collisions" \notin ran
    /\ IF single_mut_panics(Query(world, "Player"))
       THEN /\ halted' = TRUE
            /\ UNCHANGED <<ran, events, contacts, labels>>
       ELSE LET p == CHOOSE e \in Query(world, "Player") : TRUE
                hits == Hits(world, p)
                boars == {e \in hits : world[e].npc = "Boar"}
                houses(s) == {e \in s : world[e].npc = "House"}
            IN  IF boars # {}
                THEN \* todo!() is reached after the events of the entities
                     \* iterated before the Boar, and of the Boar, were sent
                     \E b \in boars : \E done \in SUBSET (hits \ {b}) :
                        /\ halted' = TRUE
                        /\ events' = events + Cardinality(done) + 1
                        /\ contacts' = contacts \cup done \cup {b}
                        /\ UNCHANGED <<ran, labels>>
                ELSE /\ events' = events + Cardinality(hits)
                     /\ contacts' = contacts \cup hits
                     /\ labels' = labels + Cardinality(houses(hits))
                     /\ ran' = ran \cup {"check_for_collisions"}
                     /\ UNCHANGED halted
    /\ UNCHANGED <<world, scale, keys, budget, start, anchor, still>>

\* the three systems carry no ordering between them: any order is a schedule
Next ==
    \/ BeginTick
    \/ move_player
    \/ move_camera
    \/ check_for_collisions

Spec == Init /\ [][Next]_vars

\* the same program, explored for ReachTicks ticks from the states of InitReach
SpecReach == InitReach /\ [][Next]_vars

\* the systems on the worlds of InitWorlds
SpecWorlds == InitWorlds /\ [][Next]_vars

\* the ticks in which the keys of the tick before are still held
NextTwice ==
    \/ SameKeysTick
    \/ move_player
    \/ move_camera
    \/ check_for_collisions

\* the systems applied again and again with the same keys held
SpecTwice == InitTwice /\ [][NextTwice]_vars

----------------------------------------------------------------------------
(* Properties *)

\* the step in which system name runs
Runs(name) == name \notin ran /\ name \in ran'

Abs(n) == IF n < 0 THEN -n ELSE n

\* C1 Bound containment: from the state built by setup, whatever keys are held
\* in whatever ticks, the player's and the camera's translation satisfy
\* -939 <= x <= 939 and -519 <= y <= 511.
C1_BoundContainment ==
    \A e \in {"Player", "Camera"} :
        /\ Fx(-939) <= world[e].x /\ world[e].x <= Fx(939)
        /\ Fx(-519) <= world[e].y /\ world[e].y <= Fx(511)

\* C1 witness: a tick with W held whose unclamped y lies above the top bound
\* has left player and camera at y = 511
C1_Witness ==
    /\ ran = Systems
    /\ "W" \in keys /\ "S" \notin keys
    /\ start.player[2] + step(1) > Fx(511)
    /\ world["Player"].y = Fx(511)
    /\ world["Camera"].y = Fx(511)

\* C2 Self-collision is excluded: the player's own entity is never tested by
\* check_for_collisions against the player, so no CollisionEvent is ever sent
\* for the player entity.
C2_NoSelfCollision ==
    contacts \cap Query(world, "Player") = {}

\* C3 Tick ordering: in every tick, when check_for_collisions has run,
\* move_player and move_camera have run before it.
C3_MovementBeforeCollision ==
    "check_for_collisions" \in ran => {"move_player", "move_camera"} \subseteq ran

\* C4 House contact: in a tick in which the player's translation equals the
\* House's (350, 0), check_for_collisions sends exactly one CollisionEvent and
\* spawns the "House" label exactly once.
C4_HouseContact ==
    [][(Runs("check_for_collisions") /\ Pos(world, "Player") = Pos(world, "House"))
        => (events' = 1 /\ labels' = labels + 1)]_vars

\* the sum of the half-extents of the two 64x64 footprints on either axis
ReachOfFootprints == Fx(64) \div 2 + Fx(64) \div 2

\* the centres of player and e are closer than the half-extents' sum on both axes
Near(e) ==
    /\ Abs(world["Player"].x - world[e].x) < ReachOfFootprints
    /\ Abs(world["Player"].y - world[e].y) < ReachOfFootprints

\* C5 No false contact: check_for_collisions sends a CollisionEvent for an
\* entity only if it is a collider whose centre is strictly closer to the
\* player's than 32 + 32 on both axes; it sends one event per such entity and
\* no other, a reaction only for an entity it sent an event for, and neither
\* event nor reaction when the player overlaps no collider.
C5_NoFalseContact ==
    [][Runs("check_for_collisions") =>
        /\ \A e \in contacts' : e \in collider_query(world) /\ Near(e)
        /\ events' = Cardinality(contacts')
        /\ labels' - labels <= Cardinality({e \in contacts' : world[e].npc = "House"})
        /\ ((\A e \in collider_query(world) : ~Near(e)) => (events' = 0 /\ labels' = labels))
      ]_vars

\* C5 witness: check_for_collisions has run with the player exactly 64 left of
\* the top wall's centre and 40 below it: an event for the player entity, none
\* for the wall
C5_Witness ==
    /\ ran = Systems
    /\ keys \cap MoveKeys = {}
    /\ world["WallTop"].x - world["Player"].x = ReachOfFootprints
    /\ Abs(world["Player"].y - world["WallTop"].y) < ReachOfFootprints
    /\ "WallTop" \notin contacts
    /\ "Player" \in contacts
    /\ events = 1

\* the unclamped result of a movement system on entity e
Unclamped(e) ==
    <<world[e].x + step(x_direction(keys)), world[e].y + step(y_direction(keys))>>

\* coordinate c is the hard stop of unclamped value u between lo and hi
HardStop(c, u, lo, hi) ==
    /\ u < lo => c = lo
    /\ u > hi => c = hi
    /\ (lo <= u /\ u <= hi) => c = u

\* C6 Hard stop by clamping: a movement tick whose unclamped result lies beyond
\* a bound on an axis leaves that coordinate equal to that bound, and one whose
\* unclamped result is inside the bounds stores it unchanged, each axis on its
\* own, for the player in move_player and for the camera in move_camera.
C6_HardStop ==
    [][/\ Runs("move_player") =>
            /\ HardStop(world'["Player"].x, Unclamped("Player")[1], Fx(-939), Fx(939))
            /\ HardStop(world'["Player"].y, Unclamped("Player")[2], Fx(-519), Fx(511))
       /\ Runs("move_camera") =>
            /\ HardStop(world'["Camera"].x, Unclamped("Camera")[1], Fx(-939), Fx(939))
            /\ HardStop(world'["Camera"].y, Unclamped("Camera")[2], Fx(-519), Fx(511))
      ]_vars

\* C6 witness: holding only A with x - 12.5 below the left bound has left the
\* player at x = -939 exactly, y as it was
C6_Witness ==
    /\ "move_player" \in ran
    /\ keys \cap MoveKeys = {"A"}
    /\ start.player[1] - step(1) < Fx(-939)
    /\ start.player[1] > Fx(-939)
    /\ Pos(world, "Player") = <<Fx(-939), start.player[2]>>

\* C7 Zoom invariant: in every reachable state the camera's zoom scale lies in
\* the closed interval [0.5, 2.0].
C7_ZoomInvariant ==
    Half <= scale /\ scale <= Fx(2)

\* C7 witness: a tick with keys held has moved the camera, the scale is in range
C7_Witness ==
    /\ "move_camera" \in ran
    /\ Pos(world, "Camera") # start.camera
    /\ Half <= scale /\ scale <= Fx(2)

Held(key) == IF key \in keys THEN 1 ELSE 0

\* the displacement the four held keys ask for, 12.5 per axis and direction
Asked == <<(Held("D") - Held("A")) * (Fx(25) \div 2),
           (Held("W") - Held("S")) * (Fx(25) \div 2)>>

\* entity e is displaced by Asked on every axis on which that stays in bounds
Displaced(e) ==
    /\ (Fx(-939) <= world[e].x + Asked[1] /\ world[e].x + Asked[1] <= Fx(939))
            => world'[e].x = world[e].x + Asked[1]
    /\ (Fx(-519) <= world[e].y + Asked[2] /\ world[e].y + Asked[2] <= Fx(511))
            => world'[e].y = world[e].y + Asked[2]

\* C9 Direction accumulation: in every movement tick the unclamped displacement
\* is (right - left) * 12.5 on x and (up - down) * 12.5 on y, the four keys
\* being independent booleans: opposing keys cancel, a diagonal input moves the
\* full 12.5 on both axes.
C9_DirectionAccumulation ==
    [][/\ Runs("move_player") => Displaced("Player")
       /\ Runs("move_camera") => Displaced("Camera")]_vars

\* C9 witness: a tick with W and D held has moved the player by (12.5, 12.5)
C9_Witness ==
    /\ "move_player" \in ran
    /\ keys \cap MoveKeys = {"W", "D"}
    /\ Pos(world, "Player") = <<start.player[1] + Fx(25) \div 2, start.player[2] + Fx(25) \div 2>>

\* C10 No input, no motion: while no movement key is held, for any number of
\* consecutive ticks, the player's and the camera's translation are the ones
\* they had when the first of those ticks began.
C10_NoInputNoMotion ==
    keys \cap MoveKeys = {} => Snapshot(world) = anchor

\* C10 witness: the second of two consecutive ticks without a movement key has
\* ended away from the setup position, player and camera where they were
C10_Witness ==
    /\ ran = Systems
    /\ still = 2
    /\ anchor # Snapshot(setup)
    /\ Snapshot(world) = anchor

\* C11 Movement idempotence, as claimed: applying move_player twice in
\* succession with the same held keys leaves the position equal to the position
\* after applying it once.
C11_MoveTwiceIsOnce ==
    ("move_player" \in ran /\ budget < ReachTicks) => Pos(world, "Player") = start.player

\* coordinate c after one more application equals coordinate c0 before it
\* exactly when the keys ask no displacement d or c0 is the bound moved towards
StaysIffStopped(c, c0, d, lo, hi) ==
    (c = c0) <=> (d = 0 \/ (d < 0 /\ c0 = lo) \/ (d > 0 /\ c0 = hi))

\* C11 as amended: applying move_player twice in succession with the same held
\* keys leaves a coordinate equal to its value after one application exactly
\* when the keys ask no displacement on that axis or the first application left
\* it on the bound it moves towards; otherwise the second application moves it
\* further, by at most 12.5.
C11_MoveTwice ==
    ("move_player" \in ran /\ budget < ReachTicks) =>
        /\ StaysIffStopped(world["Player"].x, start.player[1], Asked[1], Fx(-939), Fx(939))
        /\ StaysIffStopped(world["Player"].y, start.player[2], Asked[2], Fx(-519), Fx(511))
        /\ Abs(world["Player"].x - start.player[1]) <= Fx(25) \div 2
        /\ Abs(world["Player"].y - start.player[2]) <= Fx(25) \div 2

\* C11 witness: move_player has been applied again with D and W held; the
\* second application moved x further and left y on the top bound
C11_Witness ==
    /\ "move_player" \in ran
    /\ budget < ReachTicks
    /\ keys \cap MoveKeys = {"D", "W"}
    /\ world["Player"].x > start.player[1]
    /\ world["Player"].y = start.player[2]
    /\ world["Player"].y = Fx(511)

\* entity e is moved to the hard stop of its own translation plus Asked, and
\* entity other is left as it is
MovedAlone(e, other) ==
    /\ HardStop(world'[e].x, world[e].x + Asked[1], Fx(-939), Fx(939))
    /\ HardStop(world'[e].y, world[e].y + Asked[2], Fx(-519), Fx(511))
    /\ world'[other] = world[other]

\* C12 Camera independence from the player: the camera's translation after
\* move_camera is determined by the camera's translation before it and the held
\* keys alone, whatever the player's translation, and move_camera leaves the
\* player alone; symmetrically for move_player and the camera.
C12_CameraIndependence ==
    [][/\ Runs("move_camera") => MovedAlone("Camera", "Player")
       /\ Runs("move_player") => MovedAlone("Player", "Camera")]_vars

\* C12 witness: in a tick with keys held move_camera has run and move_player
\* has not: the camera has moved from where the tick began, the player has not,
\* and the two translations differ
C12_Witness ==
    /\ "move_camera" \in ran
    /\ "move_player" \notin ran
    /\ Pos(world, "Camera") = <<start.camera[1] + Asked[1], start.camera[2] + Asked[2]>>
    /\ Pos(world, "Player") = start.player
    /\ Pos(world, "Camera") # Pos(world, "Player")

\* the query With<c> matches exactly one entity
Singular(c) == Cardinality(Query(world, c)) = 1

C14_StaticWorld ==
    /\ DOMAIN world = Entity
    /\ \A e \in Entity \ {"Player", "Camera"} : world[e] = setup[e]
    /\ \A e \in {"Player", "Camera"} :
            [world[e] EXCEPT !.x = setup[e].x, !.y = setup[e].y] = setup[e]
    /\ labels = 0

\* C14 witness: a tick with keys held has ended with the player and the camera
\* away from where setup put them and a CollisionEvent sent; the top wall is as
\* setup spawned it
C14_Witness ==
    /\ ran = Systems
    /\ Pos(world, "Player") # Pos(setup, "Player")
    /\ Pos(world, "Camera") # Pos(setup, "Camera")
    /\ events > 0
    /\ world["WallTop"] = WallBundle("Top")
    /\ world["Boar"].hp = Fx(40)

\* the sizes of the rectangles of the program: the footprint passed to collide
\* and the extents of the four walls
RectSizes == {Footprint} \cup {size(l) : l \in WallLocation}

\* C15 AABB symmetry: the contact decision of check_for_collisions is
\* symmetric: the entities it reports for the player as first rectangle are the
\* ones collide reports with the player as second rectangle, and for the
\* player's rectangle A and any entity's rectangle B, of any of the program's
\* sizes, A overlaps B if and only if B overlaps A.
C15_AabbSymmetry ==
    [][Runs("check_for_collisions") =>
        /\ contacts' = {e \in collider_query(world) :
                            collide(Pos(world, e), Footprint, Pos(world, "Player"), Footprint)}
        /\ \A e \in Entity : \A sa \in RectSizes : \A sb \in RectSizes :
                collide(Pos(world, "Player"), sa, Pos(world, e), sb)
                    <=> collide(Pos(world, e), sb, Pos(world, "Player"), sa)
      ]_vars

\* C15 witness: check_for_collisions has reported the top wall for the player,
\* and collide reports the player for the top wall
C15_Witness ==
    /\ ran = Systems
    /\ keys \cap MoveKeys = {}
    /\ contacts = {"Player", "WallTop"}
    /\ collide(Pos(world, "WallTop"), Footprint, Pos(world, "Player"), Footprint)

\* the entity setup spawns for a wall location
WallAt(l) ==
    CASE l = "Top" -> "WallTop"
      [] l = "Left" -> "WallLeft"
      [] l = "Bottom" -> "WallBottom"
      [] l = "Right" -> "WallRight"

\* the midpoint of the world edge of a wall location
Midpoint(l) ==
    CASE l = "Top" -> <<(Fx(-960) + Fx(960)) \div 2, Fx(540)>>
      [] l = "Bottom" -> <<(Fx(-960) + Fx(960)) \div 2, Fx(-540)>>
      [] l = "Left" -> <<Fx(-960), (Fx(-540) + Fx(540)) \div 2>>
      [] l = "Right" -> <<Fx(960), (Fx(-540) + Fx(540)) \div 2>>

\* (thickness, height - thickness) and (width - thickness, thickness), with
\* width = 960 - (-960), height = 540 - (-540) and thickness = 10
Extent(l) ==
    IF l \in {"Left", "Right"}
    THEN <<Fx(10), (Fx(540) - Fx(-540)) - Fx(10)>>
    ELSE <<(Fx(960) - Fx(-960)) - Fx(10), Fx(10)>>

\* the rectangle of entity e: its translation as centre, its scale as size
Rect(e) ==
    [l |-> world[e].x - world[e].sx \div 2, r |-> world[e].x + world[e].sx \div 2,
     b |-> world[e].y - world[e].sy \div 2, t |-> world[e].y + world[e].sy \div 2]

Larger(m, n) == IF m > n THEN m ELSE n
Smaller(m, n) == IF m < n THEN m ELSE n

\* the rectangles p and q share interior area
ShareArea(p, q) ==
    /\ Larger(p.l, q.l) < Smaller(p.r, q.r)
    /\ Larger(p.b, q.b) < Smaller(p.t, q.t)

\* the rectangles p and q have exactly one point in common
MeetAtPoint(p, q) ==
    /\ Larger(p.l, q.l) = Smaller(p.r, q.r)
    /\ Larger(p.b, q.b) = Smaller(p.t, q.t)

\* C16 Wall geometry: position(edge) is the midpoint of that world edge, size
\* is (thickness, height - thickness) for Left and Right and
\* (width - thickness, thickness) for Top and Bottom, the walls of the world
\* have these centres and sizes, each vertical wall meets each horizontal wall
\* in one corner point, and no two walls share interior area.
C16_WallGeometry ==
    /\ \A l \in WallLocation :
            /\ position(l) = Midpoint(l)
            /\ size(l) = Extent(l)
            /\ Pos(world, WallAt(l)) = Midpoint(l)
            /\ <<world[WallAt(l)].sx, world[WallAt(l)].sy>> = Extent(l)
    /\ \A v \in {"WallLeft", "WallRight"} : \A h \in {"WallTop", "WallBottom"} :
            MeetAtPoint(Rect(v), Rect(h))
    /\ \A l1 \in WallLocation : \A l2 \in WallLocation \ {l1} :
            ~ShareArea(Rect(WallAt(l1)), Rect(WallAt(l2)))

\* C16 witness: after a tick the left wall's rectangle ends at x = -955 and
\* y = 535, where the top wall's rectangle begins
C16_Witness ==
    /\ ran = Systems
    /\ "check_for_collisions" \in ran
    /\ events > 0
    /\ Rect("WallLeft").r = Fx(-955) /\ Rect("WallTop").l = Fx(-955)
    /\ Rect("WallLeft").t = Fx(535) /\ Rect("WallTop").b = Fx(535)

\* C17 Camera/player lockstep: at the end of every tick, after any sequence of
\* inputs, the camera's x and y equal the player's x and y.
C17_Lockstep ==
    ran = Systems => Pos(world, "Camera") = Pos(world, "Player")

\* C17 witness: a tick with a movement key held has ended; the player has
\* moved and the camera is where the player is
C17_Witness ==
    /\ ran = Systems
    /\ Pos(world, "Player") # start.player
    /\ Pos(world, "Camera") # start.camera
    /\ Pos(world, "Camera") = Pos(world, "Player")

====
